---- MODULE Spec2Model ----
(***************************************************************************)
(* Model of the 3D PoseTracker component (src/unnamed/part_000): the joint *)
(* and bone meshes held in jointMeshesRef / boneMeshesRef, the detector    *)
(* callback onResults that mutates them in place, updateBone, and the      *)
(* animate loop that renders them.                                         *)
(*                                                                         *)
(* JavaScript runs onResults and animate on one thread, each to            *)
(* completion, so each is one atomic action.  SpecLife adds the effects'   *)
(* cleanup and renewed setup on the same instance; Spec2D is the 2D        *)
(* tracker of src/src/PoseTracker.jsx drawing on its canvas.               *)
(*                                                                         *)
(* Numbers: a finite number n is Num(n), the IEEE NaN is NaN.  Landmark    *)
(* coordinates are drawn from even integers so that multiplyScalar(0.5)    *)
(* is exact in integer arithmetic.  A length sqrt(n) is kept as Sqrt(n).   *)
(* A rotation is kept as the direction onto which it maps the reference    *)
(* axis (0,1,0): the primitive integer vector of the unit direction.       *)
(***************************************************************************)
EXTENDS Integers, Sequences, FiniteSets, TLC

\* Number of joint spheres created by the scene effect (33 in the source,
\* line 89); the model keeps the first NumJoints landmark slots.
NumJoints == 2

\* Length of the run of consecutive "no detection" results tracked by `run`.
Consecutive == 5

\* How many times the effects are set up on one component instance.
MaxSetups == 2

VARIABLES
    jointMeshes,   \* jointMeshesRef.current (line 13): index -> [visible, position]
    boneMeshes,    \* boneMeshesRef.current (line 14): index -> [visible, position, scaleY, quaternion]
    call,          \* outcome of the latest onResults call: "none", "returned", "raised"
    mixedFrames,   \* TRUE iff the visible meshes hold data of the latest call beside data it did not assign
    run,           \* consecutive no-detection results; Consecutive+1 = full frame right after such a run
    rendered,      \* TRUE iff renderer.render has drawn the current mesh state
    landmarksSeen, \* TRUE iff some onResults call had results.poseWorldLandmarks
    mounted,       \* TRUE iff the effects are set up (their cleanups have not run since)
    setups,        \* number of times the effects have been set up on this instance
    closedSends,   \* TRUE iff a Camera's onFrame has called send on a Pose already closed
    canvas,        \* 2D tracker: what the canvas element shows
    prevCanvas,    \* 2D tracker: what the canvas showed before the latest onResults call
    latest2D,      \* 2D tracker: the argument of the latest onResults call
    ctxDepth       \* 2D tracker: canvasCtx.save() calls not yet matched by restore()

\* the state of the effects' lifecycle
lifecycle == <<mounted, setups, closedSends>>

\* the state of the 2D tracker (src/src/PoseTracker.jsx)
canvas2d == <<canvas, prevCanvas, latest2D, ctxDepth>>

vars == <<jointMeshes, boneMeshes, call, mixedFrames, run, rendered, landmarksSeen,
          mounted, setups, closedSends, canvas, prevCanvas, latest2D, ctxDepth>>

----------------------------------------------------------------------------
\* Numbers

Num(n) == <<n>>
NaN == <<>>
IsNaN(a) == a = NaN
Val(a) == a[1]

\* unary minus: -NaN is NaN
Neg(a) == IF IsNaN(a) THEN NaN ELSE Num(0 - Val(a))
Plus(a, b) == IF IsNaN(a) \/ IsNaN(b) THEN NaN ELSE Num(Val(a) + Val(b))
Minus(a, b) == IF IsNaN(a) \/ IsNaN(b) THEN NaN ELSE Num(Val(a) - Val(b))
\* multiplication by 0.5 (operands are even)
Half(a) == IF IsNaN(a) THEN NaN ELSE Num(Val(a) \div 2)

Sqrt(n) == <<"sqrt", n>>

Abs(n) == IF n < 0 THEN 0 - n ELSE n

RECURSIVE Gcd(_, _)
Gcd(a, b) == IF b = 0 THEN a ELSE Gcd(b, a % b)

----------------------------------------------------------------------------
\* THREE.Vector3

Vector3(x, y, z) == [x |-> x, y |-> y, z |-> z]

HasNaN(v) == IsNaN(v.x) \/ IsNaN(v.y) \/ IsNaN(v.z)

subVectors(a, b) == Vector3(Minus(a.x, b.x), Minus(a.y, b.y), Minus(a.z, b.z))

add(a, b) == Vector3(Plus(a.x, b.x), Plus(a.y, b.y), Plus(a.z, b.z))

multiplyScalarHalf(v) == Vector3(Half(v.x), Half(v.y), Half(v.z))

\* Vector3.length(): sqrt(x*x + y*y + z*z), NaN if a component is NaN
length(v) ==
    IF HasNaN(v) THEN NaN
    ELSE Sqrt(Val(v.x) * Val(v.x) + Val(v.y) * Val(v.y) + Val(v.z) * Val(v.z))

\* normalize dividing by the length itself: 0/0 for the zero vector
normalize_div(v) ==
    IF HasNaN(v) THEN v
    ELSE IF length(v) = Sqrt(0) THEN Vector3(NaN, NaN, NaN)
    ELSE LET g == Gcd(Gcd(Abs(Val(v.x)), Abs(Val(v.y))), Abs(Val(v.z)))
         IN  Vector3(Num(Val(v.x) \div g), Num(Val(v.y) \div g), Num(Val(v.z) \div g))

\* Vector3.normalize(): divideScalar(length() || 1).  A zero or NaN length is
\* falsy, so the vector is divided by 1 and left as it is.
normalize(v) ==
    IF HasNaN(v) \/ length(v) = Sqrt(0) THEN v
    ELSE LET g == Gcd(Gcd(Abs(Val(v.x)), Abs(Val(v.y))), Abs(Val(v.z)))
         IN  Vector3(Num(Val(v.x) \div g), Num(Val(v.y) \div g), Num(Val(v.z) \div g))

Up == Vector3(Num(0), Num(1), Num(0))
QuatNaN == [to |-> Vector3(NaN, NaN, NaN)]
QuatIdentity == [to |-> Up]

\* Quaternion.setFromUnitVectors((0,1,0), vTo): a NaN component makes every
\* component NaN; the zero vector gives (0,0,0,1), the identity.
setFromUnitVectors(vTo) ==
    IF HasNaN(vTo) THEN QuatNaN
    ELSE IF vTo = Vector3(Num(0), Num(0), Num(0)) THEN QuatIdentity
    ELSE [to |-> vTo]

----------------------------------------------------------------------------
\* Topology and entities

\* POSE_CONNECTIONS of @mediapipe/pose
AllConnections ==
    << <<0,1>>, <<1,2>>, <<2,3>>, <<3,7>>, <<0,4>>, <<4,5>>, <<5,6>>, <<6,8>>,
       <<9,10>>, <<11,12>>, <<11,13>>, <<13,15>>, <<15,17>>, <<15,19>>,
       <<15,21>>, <<17,19>>, <<12,14>>, <<14,16>>, <<16,18>>, <<16,20>>,
       <<16,22>>, <<18,20>>, <<11,23>>, <<12,24>>, <<23,24>>, <<23,25>>,
       <<24,26>>, <<25,27>>, <<26,28>>, <<27,29>>, <<28,30>>, <<29,31>>,
       <<30,32>>, <<27,31>>, <<28,32>> >>

InRange(c) == c[1] < NumJoints /\ c[2] < NumJoints

\* the connections among the modelled joints
POSE_CONNECTIONS == SelectSeq(AllConnections, InRange)

JointIdx == 0 .. (NumJoints - 1)
BoneIdx == 1 .. Len(POSE_CONNECTIONS)

Zero3 == Vector3(Num(0), Num(0), Num(0))

\* a sphere as created by the scene effect: hidden, at the origin
NewSphere == [visible |-> FALSE, position |-> Zero3]

\* a cylinder created without cylinder.visible = false
NewCylinder_shown ==
    [visible |-> TRUE, position |-> Zero3, scaleY |-> Sqrt(1),
     quaternion |-> QuatIdentity]

\* a cylinder as created by createBones: hidden, default transform
NewCylinder ==
    [visible |-> FALSE, position |-> Zero3, scaleY |-> Sqrt(1),
     quaternion |-> QuatIdentity]

----------------------------------------------------------------------------
\* Detector results

Hole == [kind |-> "hole"]      \* no element at the index (omitted, or past the end)
Null == [kind |-> "null"]      \* an element that is null or undefined
Landmark(p) == [kind |-> "landmark", x |-> p.x, y |-> p.y, z |-> p.z]

Present(s) == s.kind = "landmark"

FinitePoints == { Vector3(Num(0), Num(0), Num(0)), Vector3(Num(2), Num(2), Num(0)) }
NaNPoint == Vector3(NaN, Num(0), Num(0))

Slots(points) == {Hole, Null} \cup { Landmark(p) : p \in points }

\* results.poseWorldLandmarks undefined
NoDetection == [detected |-> FALSE, poseWorldLandmarks |-> [i \in JointIdx |-> Hole]]

Detected(lm) == [detected |-> TRUE, poseWorldLandmarks |-> lm]

Results(points) ==
    {NoDetection} \cup { Detected(lm) : lm \in [JointIdx -> Slots(points)] }

\* detector results with finite coordinates
FiniteResults == Results(FinitePoints)

\* detector results whose coordinates may be NaN
AnyResults == Results(FinitePoints \cup {NaNPoint})

IsFull(r) == r.detected /\ \A i \in JointIdx : Present(r.poseWorldLandmarks[i])

----------------------------------------------------------------------------
\* onResults and its parts

\* jointMeshesRef.current.forEach(mesh => mesh.visible = false)
HideJoints(jm) == [i \in DOMAIN jm |-> [jm[i] EXCEPT !.visible = FALSE]]

\* the no-detection branch forgetting the bones
HideBones_skip(bm) == bm

\* boneMeshesRef.current.forEach(mesh => mesh.visible = false)
HideBones(bm) == [k \in DOMAIN bm |-> [bm[k] EXCEPT !.visible = FALSE]]

\* The joint callback reads landmark.x of a null or undefined element and
\* throws a TypeError; forEach visits the indices in ascending order and
\* skips holes, so the joints before the first such element are processed.
FirstNull(lm) ==
    IF \E i \in DOMAIN lm : lm[i] = Null
    THEN CHOOSE i \in DOMAIN lm :
            lm[i] = Null /\ \A j \in DOMAIN lm : lm[j] = Null => i <= j
    ELSE NumJoints

Throws(lm, jm) == \E i \in DOMAIN lm : lm[i] = Null /\ i \in DOMAIN jm

\* the joint callback positioning the mesh without showing it
SetJoint_noshow(mesh, landmark) ==
    [mesh EXCEPT !.position = Vector3(Neg(landmark.x), Neg(landmark.y), Neg(landmark.z))]

\* the body of the joint callback for one landmark
SetJoint(mesh, landmark) ==
    [mesh EXCEPT !.position = Vector3(Neg(landmark.x), Neg(landmark.y), Neg(landmark.z)),
                 !.visible = TRUE]

\* indices whose mesh the joint loop assigns
JointsVisited(lm, jm) ==
    { i \in DOMAIN lm : Present(lm[i]) /\ i < FirstNull(lm) /\ i \in DOMAIN jm }

\* results.poseWorldLandmarks.forEach((landmark, index) => ...)
UpdateJoints(jm, lm) ==
    [i \in DOMAIN jm |->
        IF i \in JointsVisited(lm, jm) THEN SetJoint(jm[i], lm[i]) ELSE jm[i]]

\* updateBone placing the bone at its first end point
updateBone_start(bone, point1, point2) ==
    LET direction == subVectors(point2, point1)
        len == length(direction)
        halved == multiplyScalarHalf(direction)
    IN  [bone EXCEPT !.position = point1,
                     !.scaleY = len,
                     !.quaternion = setFromUnitVectors(normalize(halved)),
                     !.visible = TRUE]

updateBone(bone, point1, point2) ==
    LET direction == subVectors(point2, point1)
        len == length(direction)
        halved == multiplyScalarHalf(direction)
    IN  [bone EXCEPT !.position = add(point1, halved),
                     !.scaleY = len,
                     !.quaternion = setFromUnitVectors(normalize(halved)),
                     !.visible = TRUE]

\* connections whose two landmarks are both truthy
BonesVisited(lm, bm) ==
    { k \in BoneIdx :
        /\ Present(lm[POSE_CONNECTIONS[k][1]])
        /\ Present(lm[POSE_CONNECTIONS[k][2]])
        /\ k \in DOMAIN bm }

\* end points flipped in y only
Point_yonly(landmark) == Vector3(landmark.x, Neg(landmark.y), landmark.z)

\* the render-space end point built from a landmark
Point(landmark) == Vector3(Neg(landmark.x), Neg(landmark.y), Neg(landmark.z))

\* POSE_CONNECTIONS.forEach((connection, index) => ...)
UpdateBones(bm, lm) ==
    [k \in DOMAIN bm |->
        IF k \in BonesVisited(lm, bm)
        THEN updateBone(bm[k], Point(lm[POSE_CONNECTIONS[k][1]]),
                               Point(lm[POSE_CONNECTIONS[k][2]]))
        ELSE bm[k]]

\* The meshes after onResults(results) has run on meshes jm, bm.
Ingest(jm, bm, results) ==
    LET lm == results.poseWorldLandmarks IN
    IF ~results.detected
    THEN [joints |-> HideJoints(jm), bones |-> HideBones(bm), outcome |-> "returned",
          written |-> [joints |-> DOMAIN jm, bones |-> DOMAIN bm]]
    ELSE IF Throws(lm, jm)
    THEN [joints |-> UpdateJoints(jm, lm), bones |-> bm, outcome |-> "raised",
          written |-> [joints |-> JointsVisited(lm, jm), bones |-> {}]]
    ELSE [joints |-> UpdateJoints(jm, lm), bones |-> UpdateBones(bm, lm),
          outcome |-> "returned",
          written |-> [joints |-> JointsVisited(lm, jm), bones |-> BonesVisited(lm, bm)]]

NextRun(r, results) ==
    IF ~results.detected
    THEN (IF r >= Consecutive THEN (IF r = Consecutive THEN Consecutive ELSE 1) ELSE r + 1)
    ELSE IF IsFull(results) /\ r = Consecutive THEN Consecutive + 1
    ELSE 0

\* A visible mesh that the latest call assigned stands beside a visible mesh
\* that it left as an earlier call had set it.
Mixed(out) ==
    LET fresh == \/ \E i \in out.written.joints : out.joints[i].visible
                 \/ \E k \in out.written.bones : out.bones[k].visible
        stale == \/ \E i \in DOMAIN out.joints \ out.written.joints : out.joints[i].visible
                 \/ \E k \in DOMAIN out.bones \ out.written.bones : out.bones[k].visible
    IN  fresh /\ stale

onResults(results) ==
    \E out \in {Ingest(jointMeshes, boneMeshes, results)} :
        /\ jointMeshes' = out.joints
        /\ boneMeshes' = out.bones
        /\ call' = out.outcome
        /\ mixedFrames' = Mixed(out)
        /\ run' = NextRun(run, results)
        /\ rendered' = FALSE
        /\ landmarksSeen' = (landmarksSeen \/ results.detected)
        /\ UNCHANGED <<lifecycle, canvas2d>>

\* a render tick that re-derives visibility and hides the bones
animate_hide ==
    /\ rendered' = TRUE
    /\ boneMeshes' = HideBones(boneMeshes)
    /\ UNCHANGED <<jointMeshes, call, mixedFrames, run, landmarksSeen, lifecycle, canvas2d>>

\* one tick of the animation loop: requestAnimationFrame(animate),
\* controls.update(), renderer.render(scene, camera)
animate ==
    /\ rendered' = TRUE
    /\ UNCHANGED <<jointMeshes, boneMeshes, call, mixedFrames, run, landmarksSeen,
                   lifecycle, canvas2d>>

----------------------------------------------------------------------------
\* The effects' setup and cleanup

\* for (let i = 0; i < 33; i++) { ... jointMeshesRef.current.push(sphere) }
createSpheres(jm) ==
    LET n == Cardinality(DOMAIN jm) IN
    [i \in 0 .. (n + NumJoints - 1) |-> IF i < n THEN jm[i] ELSE NewSphere]

\* POSE_CONNECTIONS.forEach(() => { ... boneMeshesRef.current.push(cylinder) })
createBones(bm) ==
    [k \in 1 .. (Len(bm) + Len(POSE_CONNECTIONS)) |->
        IF k <= Len(bm) THEN bm[k] ELSE NewCylinder]

\* the scene (1, 2, ...) whose setup created the mesh at index i
SceneOfJoint(i) == (i \div NumJoints) + 1
SceneOfBone(k) == ((k - 1) \div Len(POSE_CONNECTIONS)) + 1

\* Both effects run again on the same instance (the refs keep their
\* contents): a new scene with its meshes pushed onto the refs and its own
\* animate loop, started by a first animate() call; a new Pose and Camera.
setup ==
    /\ ~mounted
    /\ setups < MaxSetups
    /\ mounted' = TRUE
    /\ setups' = setups + 1
    /\ jointMeshes' = createSpheres(jointMeshes)
    /\ boneMeshes' = createBones(boneMeshes)
    /\ rendered' = TRUE
    /\ UNCHANGED <<call, mixedFrames, run, landmarksSeen, closedSends, canvas2d>>

\* The effects' cleanups: the resize listener and the canvas are removed,
\* renderer.dispose() and pose.close() are called.  Neither the refs, nor the
\* requestAnimationFrame loop, nor the Camera is touched.
cleanup ==
    /\ mounted
    /\ mounted' = FALSE
    /\ UNCHANGED <<jointMeshes, boneMeshes, call, mixedFrames, run, rendered,
                   landmarksSeen, setups, closedSends, canvas2d>>

\* the Pose created by setup number c has been closed
Closed(c) == c < setups \/ ~mounted

\* onFrame of the Camera started by setup number c: await pose.send(...)
onFrame(c) ==
    /\ closedSends' = (closedSends \/ Closed(c))
    /\ UNCHANGED <<jointMeshes, boneMeshes, call, mixedFrames, run, rendered,
                   landmarksSeen, mounted, setups, canvas2d>>

----------------------------------------------------------------------------
\* The 2D tracker (src/src/PoseTracker.jsx)

\* a canvas element nothing has been drawn on
NewCanvas == [background |-> "transparent", segments |-> {}, marks |-> {}]

\* canvasCtx.clearRect(0, 0, width, height)
clearRect(cv) == [background |-> "transparent", segments |-> {}, marks |-> {}]

\* canvasCtx.fillStyle = '#FFFFFF'; canvasCtx.fillRect(0, 0, width, height)
fillRect(cv) == [background |-> "white", segments |-> {}, marks |-> {}]

\* a callback that draws over what the canvas holds
ClearCanvas_keep(cv) == [cv EXCEPT !.background = "white"]

\* the canvas after clearRect and fillRect
ClearCanvas(cv) == fillRect(clearRect(cv))

\* drawConnectors: a line for every connection whose two landmarks exist
drawConnectors(cv, lm) ==
    [cv EXCEPT !.segments = @ \cup
        { <<k, lm[POSE_CONNECTIONS[k][1]], lm[POSE_CONNECTIONS[k][2]]>> :
            k \in { j \in BoneIdx : /\ Present(lm[POSE_CONNECTIONS[j][1]])
                                     /\ Present(lm[POSE_CONNECTIONS[j][2]]) } }]

\* drawLandmarks: a circle for every landmark that exists
drawLandmarks(cv, lm) ==
    [cv EXCEPT !.marks = @ \cup { <<i, lm[i]>> : i \in { j \in DOMAIN lm : Present(lm[j]) } }]

Points2D == FinitePoints \cup { Vector3(Num(2), Num(0), Num(0)) }

\* results.poseLandmarks undefined
NoDetection2D == [detected |-> FALSE, poseLandmarks |-> [i \in JointIdx |-> Hole]]

\* results of the 2D detector: no landmarks, or landmarks some of which are missing
Results2D ==
    {NoDetection2D} \cup
    { [detected |-> TRUE, poseLandmarks |-> lm] :
        lm \in [JointIdx -> {Hole} \cup { Landmark(p) : p \in Points2D }] }

\* latest2D before the first call
NoCall2D == [detected |-> FALSE, poseLandmarks |-> <<>>]

\* the canvas after onResults(results) of the 2D tracker
Draw(cv, results) ==
    LET cleared == ClearCanvas(cv) IN
    IF results.detected
    THEN drawLandmarks(drawConnectors(cleared, results.poseLandmarks), results.poseLandmarks)
    ELSE cleared

\* onResults of the 2D tracker: save, clear, draw, restore
onResults2D(results) ==
    /\ canvas' = Draw(canvas, results)
    /\ prevCanvas' = canvas
    /\ latest2D' = results
    /\ ctxDepth' = (ctxDepth + 1) - 1
    /\ UNCHANGED <<jointMeshes, boneMeshes, call, mixedFrames, run, rendered,
                   landmarksSeen, lifecycle>>

----------------------------------------------------------------------------
\* Specifications

\* The state once the component is mounted: the scene effect has created the
\* meshes and made its first animate() call, the pose effect has created the
\* Pose and started the Camera.
Init ==
    /\ jointMeshes = [i \in JointIdx |-> NewSphere]
    /\ boneMeshes = [k \in BoneIdx |-> NewCylinder]
    /\ call = "none"
    /\ mixedFrames = FALSE
    /\ run = 0
    /\ rendered = TRUE
    /\ landmarksSeen = FALSE
    /\ mounted = TRUE
    /\ setups = 1
    /\ closedSends = FALSE
    /\ canvas = NewCanvas
    /\ prevCanvas = NewCanvas
    /\ latest2D = NoCall2D
    /\ ctxDepth = 0

Deliver == \E results \in FiniteResults : onResults(results)

Next == Deliver \/ animate

Spec == Init /\ [][Next]_vars

DeliverAny == \E results \in AnyResults : onResults(results)

NextAny == DeliverAny \/ animate

SpecAny == Init /\ [][NextAny]_vars

\* results reach onResults only from the Pose that is open
DeliverLive == mounted /\ Deliver

Frame == \E c \in 1 .. setups : onFrame(c)

NextLife == setup \/ cleanup \/ Frame \/ DeliverLive \/ animate

\* the 3D tracker with its effects cleaned up and set up again
SpecLife == Init /\ [][NextLife]_vars

Deliver2D == \E results \in Results2D : onResults2D(results)

Next2D == Deliver2D

\* the 2D tracker
Spec2D == Init /\ [][Next2D]_vars

TypeOK ==
    /\ DOMAIN jointMeshes = JointIdx
    /\ DOMAIN boneMeshes = BoneIdx
    /\ call \in {"none", "returned", "raised"}
    /\ run \in 0 .. (Consecutive + 1)
    /\ rendered \in BOOLEAN
    /\ mixedFrames \in BOOLEAN

----------------------------------------------------------------------------
\* Properties

AllHidden ==
    /\ \A i \in JointIdx : ~jointMeshes[i].visible
    /\ \A k \in BoneIdx : ~boneMeshes[k].visible

AllShown ==
    /\ \A i \in JointIdx : jointMeshes[i].visible
    /\ \A k \in BoneIdx : boneMeshes[k].visible

\* the latest onResults call had no landmarks
LatestNoDetection == run \in 1 .. Consecutive

\* C1: when the latest onResults call had no landmarks, the scene drawn by
\* the next render tick has every joint and every bone hidden, whatever was
\* ingested before.
C1_NoDetectionHidesAll == (rendered /\ LatestNoDetection) => AllHidden

\* a render tick after a no-detection result that followed frames with landmarks
C1_Witness ==
    /\ rendered
    /\ run = 1
    /\ AllHidden
    /\ \E i \in JointIdx : jointMeshes[i].position # Zero3
    /\ \E k \in BoneIdx : boneMeshes[k].scaleY # Sqrt(1)

BothPresent(r, k) ==
    /\ r.detected
    /\ Present(r.poseWorldLandmarks[POSE_CONNECTIONS[k][1]])
    /\ Present(r.poseWorldLandmarks[POSE_CONNECTIONS[k][2]])

\* C2: after every onResults call that returns, a bone is visible if and only if both of
\* its end point landmarks are present in the frame of that call.
C2_BoneVisibleIffBothPresent ==
    [][\A r \in FiniteResults :
          (onResults(r) /\ call' = "returned") =>
              \A k \in BoneIdx : boneMeshes'[k].visible <=> BothPresent(r, k)]_vars

\* C3: after a call with landmarks that returns, joint i is visible if and only if
\* landmark slot i is present in the frame of that call.
C3_JointVisibleIffPresent ==
    [][\A r \in FiniteResults :
          (onResults(r) /\ r.detected /\ call' = "returned") =>
              \A i \in JointIdx :
                  jointMeshes'[i].visible <=> Present(r.poseWorldLandmarks[i])]_vars

\* C4: no render tick draws visible meshes carrying data of the newest frame
\* beside visible meshes carrying data of an older frame.
C4_SingleFrame == rendered => ~mixedFrames

\* C5: a render tick during a run of no-detection results sees everything
\* hidden, and a render tick after the full frame that follows Consecutive
\* no-detection results sees every joint and every bone shown.
C5_Scenario ==
    rendered =>
        /\ (run \in 1 .. Consecutive => AllHidden)
        /\ (run = Consecutive + 1 => AllShown)

\* a render tick after the full frame that ended the no-detection run
C5_Witness == rendered /\ run = Consecutive + 1 /\ AllShown

\* C6: a render tick is always possible and leaves every joint and bone
\* (position, scale, orientation, visibility) as it was.
C6_AnimateLeavesMeshes ==
    /\ [](ENABLED animate)
    /\ [][animate => (jointMeshes' = jointMeshes /\ boneMeshes' = boneMeshes)]_vars

\* a render tick has drawn meshes that an ingested frame made visible
C6_Witness ==
    /\ rendered
    /\ \E i \in JointIdx : jointMeshes[i].visible
    /\ \E k \in BoneIdx : boneMeshes[k].visible

\* C7: no onResults call raises, whichever landmark slots are missing.
C7_NeverRaises == call # "raised"

HasEnd(k, i) == POSE_CONNECTIONS[k][1] = i \/ POSE_CONNECTIONS[k][2] = i

NonFinite(s) == Present(s) /\ (IsNaN(s.x) \/ IsNaN(s.y) \/ IsNaN(s.z))

\* C8: a landmark with a non-finite coordinate leaves its joint hidden, its
\* value out of the joint's position, and every bone ending at it hidden.
C8_NonFiniteRejected ==
    [][\A r \in AnyResults :
          onResults(r) =>
              \A i \in JointIdx :
                  NonFinite(r.poseWorldLandmarks[i]) =>
                      /\ ~jointMeshes'[i].visible
                      /\ ~HasNaN(jointMeshes'[i].position)
                      /\ \A k \in BoneIdx : HasEnd(k, i) => ~boneMeshes'[k].visible]_vars

\* what a call publishes: the visible meshes with their transforms
Published(out) ==
    [joints |-> [i \in DOMAIN out.joints |->
                    IF out.joints[i].visible THEN out.joints[i] ELSE NewSphere],
     bones |-> [k \in DOMAIN out.bones |->
                    IF out.bones[k].visible THEN out.bones[k] ELSE NewCylinder]]

\* C9: what onResults(r) publishes is the same from every reachable state
\* as from the initial one.
C9_FunctionOfInput ==
    \A r \in FiniteResults :
        Published(Ingest(jointMeshes, boneMeshes, r)) =
            Published(Ingest([i \in JointIdx |-> NewSphere],
                             [k \in BoneIdx |-> NewCylinder], r))

\* C10: updateBone applied to any bone mesh with both end points at the same
\* (finite) render-space point completes with length scale 0, the point as
\* position and the identity rotation; no NaN enters the transform, and a
\* bone shown with length 0 carries the identity rotation.
C10_CoincidentEndpoints ==
    /\ \A k \in BoneIdx : \A i \in JointIdx :
          LET p == jointMeshes[i].position
              b == updateBone(boneMeshes[k], p, p)
          IN  /\ b.scaleY = Sqrt(0)
              /\ b.position = p
              /\ b.quaternion = QuatIdentity
    /\ \A k \in BoneIdx :
          (boneMeshes[k].visible /\ boneMeshes[k].scaleY = Sqrt(0)) =>
              /\ boneMeshes[k].quaternion = QuatIdentity
              /\ ~HasNaN(boneMeshes[k].position)

\* a bone placed between two coinciding end points away from the origin
C10_Witness ==
    \E k \in BoneIdx :
        /\ boneMeshes[k].visible
        /\ boneMeshes[k].scaleY = Sqrt(0)
        /\ boneMeshes[k].position # Zero3
        /\ jointMeshes[POSE_CONNECTIONS[k][1]].position = boneMeshes[k].position
        /\ jointMeshes[POSE_CONNECTIONS[k][2]].position = boneMeshes[k].position

\* the midpoint of two points and the distance between them
Midpoint(a, b) ==
    Vector3(Half(Plus(a.x, b.x)), Half(Plus(a.y, b.y)), Half(Plus(a.z, b.z)))

Distance(a, b) ==
    Sqrt((Val(a.x) - Val(b.x)) * (Val(a.x) - Val(b.x))
         + (Val(a.y) - Val(b.y)) * (Val(a.y) - Val(b.y))
         + (Val(a.z) - Val(b.z)) * (Val(a.z) - Val(b.z)))

\* C11: after a call with landmarks that returns, every present landmark has
\* its joint at the negated coordinates, and every visible bone has both end
\* points in that frame, lies at the midpoint of the positions its two joints
\* got from it and has their distance as length scale.
C11_Placement ==
    [][\A r \in FiniteResults :
          (onResults(r) /\ r.detected /\ call' = "returned") =>
              /\ \A i \in JointIdx :
                    Present(r.poseWorldLandmarks[i]) =>
                        jointMeshes'[i].position =
                            Vector3(Neg(r.poseWorldLandmarks[i].x),
                                    Neg(r.poseWorldLandmarks[i].y),
                                    Neg(r.poseWorldLandmarks[i].z))
              /\ \A k \in BoneIdx :
                    boneMeshes'[k].visible =>
                        /\ BothPresent(r, k)
                        /\ boneMeshes'[k].position =
                               Midpoint(jointMeshes'[POSE_CONNECTIONS[k][1]].position,
                                        jointMeshes'[POSE_CONNECTIONS[k][2]].position)
                        /\ boneMeshes'[k].scaleY =
                               Distance(jointMeshes'[POSE_CONNECTIONS[k][1]].position,
                                        jointMeshes'[POSE_CONNECTIONS[k][2]].position)]_vars

\* C12: the transform of a landmark is its own inverse on every finite
\* point, the joint callback and the bone loop apply the same transform, and
\* transforming the position of a shown joint gives back a detector point.
C12_Involution ==
    /\ \A p \in FinitePoints :
          /\ Point(Landmark(Point(Landmark(p)))) = p
          /\ SetJoint(NewSphere, Landmark(p)).position = Point(Landmark(p))
    /\ \A i \in JointIdx :
          jointMeshes[i].visible =>
              /\ Point(Landmark(jointMeshes[i].position)) \in FinitePoints
              /\ Point(Landmark(Point(Landmark(jointMeshes[i].position)))) =
                     jointMeshes[i].position

\* a joint shown away from the origin
C12_Witness ==
    \E i \in JointIdx :
        /\ jointMeshes[i].visible
        /\ jointMeshes[i].position = Vector3(Num(0 - 2), Num(0 - 2), Num(0))

\* C13: for any two distinct joint positions a and b, updateBone(a, b) and
\* updateBone(b, a) give the same position and the same length scale, and
\* different rotations.
C13_Symmetric ==
    \A k \in BoneIdx : \A i, j \in JointIdx :
        LET a == jointMeshes[i].position
            b == jointMeshes[j].position
            ab == updateBone(boneMeshes[k], a, b)
            ba == updateBone(boneMeshes[k], b, a)
        IN  a # b =>
                /\ ab.position = ba.position
                /\ ab.scaleY = ba.scaleY
                /\ ab.scaleY # Sqrt(0)
                /\ ab.quaternion # ba.quaternion

\* a bone placed by updateBone between two joints at distinct positions
C13_Witness ==
    \E k \in BoneIdx :
        /\ boneMeshes[k].visible
        /\ boneMeshes[k].scaleY = Sqrt(8)
        /\ jointMeshes[POSE_CONNECTIONS[k][1]].position #
               jointMeshes[POSE_CONNECTIONS[k][2]].position
        /\ boneMeshes[k].position =
               Midpoint(jointMeshes[POSE_CONNECTIONS[k][1]].position,
                        jointMeshes[POSE_CONNECTIONS[k][2]].position)

\* C14: once the pose effect's cleanup has closed a Pose, no Camera frame
\* callback calls send on it.
C14_NoSendAfterShutdown == ~closedSends

\* C15: until an onResults call has landmarks, every joint and every bone is
\* hidden, through any render ticks and no-detection results.
C15_HiddenUntilLandmarks == ~landmarksSeen => AllHidden

\* several no-detection results and a render tick before any landmarks
C15_Witness == ~landmarksSeen /\ rendered /\ run >= 2 /\ AllHidden

\* C16: after any setups and cleanups the joint list holds NumJoints entries
\* and the bone list one entry per connection, and the meshes onResults
\* updates belong to the scene set up last.
C16_ListsBelongToScene ==
    /\ Cardinality(DOMAIN jointMeshes) = NumJoints
    /\ Len(boneMeshes) = Len(POSE_CONNECTIONS)
    /\ \A i \in JointIdx : SceneOfJoint(i) = setups
    /\ \A k \in BoneIdx : SceneOfBone(k) = setups

\* C17: after the scene effect's cleanup no animate tick renders.
C17_LoopStops == [][animate => mounted]_vars

\* the canvas showing the skeleton of results r and nothing else
Skeleton(r) ==
    LET white == [background |-> "white", segments |-> {}, marks |-> {}] IN
    IF r.detected
    THEN drawLandmarks(drawConnectors(white, r.poseLandmarks), r.poseLandmarks)
    ELSE white

\* C18: after every onResults call of the 2D tracker the canvas shows the
\* skeleton of the latest results on white and nothing of earlier results,
\* plain white if there are no landmarks, and every save has been restored.
C18_OnlyLatestSkeleton ==
    /\ ctxDepth = 0
    /\ latest2D # NoCall2D => canvas = Skeleton(latest2D)
    /\ (latest2D # NoCall2D /\ ~latest2D.detected) =>
           canvas = [background |-> "white", segments |-> {}, marks |-> {}]

\* a skeleton drawn after a different skeleton
C18_Witness ==
    /\ latest2D.detected
    /\ canvas.marks # {}
    /\ canvas.segments # {}
    /\ prevCanvas.segments # {}
    /\ prevCanvas.marks \cap canvas.marks = {}

====
